---- MODULE Spec2Model ----
(***************************************************************************)
(* A model of elecwarn.py: the CsvData extraction methods, the percentage  *)
(* computation, process_csv_content and the _main loop body.               *)
(*                                                                         *)
(* Text is modelled character by character: a str is a sequence of         *)
(* one-character strings, a CSV line is a str holding "," separators, and  *)
(* the payload is the list of decoded lines.  Python exceptions are        *)
(* modelled as outcomes: Ok(v) is a normal return of v, Raise(e) is an     *)
(* exception of class e leaving the function.                              *)
(***************************************************************************)
EXTENDS Integers, Sequences, FiniteSets, TLC

VARIABLES
    now,        \* datetime.datetime.now(tz=ZoneInfo('Asia/Tokyo'))
    pc,         \* "start", "constructed", "called", "returned", "exit"
    data,       \* the CsvData object (its fields), or NoData
    ret,        \* outcome of the last call
    stdout,     \* what _main printed for the area
    store       \* items written to the DynamoDB tables

vars == <<now, pc, data, ret, stdout, store>>

\* ------------------------------------------------------------- bounds ----
\* rows of the five-minute slice (289 in the source: 1 header + 288 slots)
FiveSpan == 3
\* rows of the hourly slice (25 in the source: 1 header + 24 hours)
HourSpan == 3

\* ----------------------------------------------------- program constants --
AmountSupplyLine == 2
AmountDemandLine == 5
PctSupplyLine == 8
PctDemandLine == 11

\* ------------------------------------------------------------ outcomes ---
Ok(v) == [ok |-> TRUE, val |-> v]
Raise(e) == [ok |-> FALSE, exc |-> e]

\* --------------------------------------------------------------- text ----
Digits == {"0", "1", "2", "3", "4", "5", "6", "7", "8", "9"}

DigitVal(c) ==
    CASE c = "0" -> 0 [] c = "1" -> 1 [] c = "2" -> 2 [] c = "3" -> 3
      [] c = "4" -> 4 [] c = "5" -> 5 [] c = "6" -> 6 [] c = "7" -> 7
      [] c = "8" -> 8 [] c = "9" -> 9

DigitChar(d) ==
    CASE d = 0 -> "0" [] d = 1 -> "1" [] d = 2 -> "2" [] d = 3 -> "3"
      [] d = 4 -> "4" [] d = 5 -> "5" [] d = 6 -> "6" [] d = 7 -> "7"
      [] d = 8 -> "8" [] d = 9 -> "9"

RECURSIVE Pow10(_)
Pow10(n) == IF n = 0 THEN 1 ELSE 10 * Pow10(n - 1)

Reverse(s) == [i \in 1..Len(s) |-> s[Len(s) + 1 - i]]

\* str.split(sep)
RECURSIVE Split(_, _)
Split(s, sep) ==
    IF \A i \in 1..Len(s) : s[i] # sep
    THEN <<s>>
    ELSE LET i == CHOOSE k \in 1..Len(s) :
                      s[k] = sep /\ \A j \in 1..(k - 1) : s[j] # sep
         IN  <<SubSeq(s, 1, i - 1)>> \o Split(SubSeq(s, i + 1, Len(s)), sep)

\* sep.join(list)
RECURSIVE Join(_, _)
Join(list, sep) ==
    IF list = <<>> THEN <<>>
    ELSE IF Len(list) = 1 THEN list[1]
    ELSE list[1] \o <<sep>> \o Join(Tail(list), sep)

\* a Python slice list[a:b] with 0 <= a <= b (indices are 0-based and clamp
\* to the length of the list)
Slice(list, a, b) ==
    LET hi == IF b < Len(list) THEN b ELSE Len(list)
    IN  IF a >= hi THEN <<>> ELSE SubSeq(list, a + 1, hi)

\* whether list[i] exists, and list[i], for a 0-based index i >= 0
HasIndex(list, i) == i < Len(list)
At(list, i) == list[i + 1]

IsDigits(s) == Len(s) > 0 /\ \A i \in 1..Len(s) : s[i] \in Digits

RECURSIVE DigitsVal(_)
DigitsVal(s) ==
    IF s = <<>> THEN 0
    ELSE DigitsVal(SubSeq(s, 1, Len(s) - 1)) * 10 + DigitVal(s[Len(s)])

HasSign(s) == Len(s) > 0 /\ s[1] \in {"-", "+"}
Unsigned(s) == IF HasSign(s) THEN Tail(s) ELSE s
SignOf(s) == IF Len(s) > 0 /\ s[1] = "-" THEN -1 ELSE 1

\* int(str): an optional sign and decimal digits, anything else is a
\* ValueError (in particular "97.5" and "")
IntLiteral(s) == IsDigits(Unsigned(s))
IntOfStr(s) ==
    IF IntLiteral(s) THEN Ok(SignOf(s) * DigitsVal(Unsigned(s)))
    ELSE Raise("ValueError")

\* a float is mant / 10^exp
Float(m, e) == [mant |-> m, exp |-> e]

\* float(str) and the numeric inference of read_csv: an optional sign,
\* digits, and an optional "." with digits on at least one side
FloatLiteral(s) ==
    LET u == Unsigned(s)
        parts == Split(u, ".")
    IN  /\ Len(parts) \in {1, 2}
        /\ \A i \in 1..Len(parts) :
              \A j \in 1..Len(parts[i]) : parts[i][j] \in Digits
        /\ \E i \in 1..Len(parts) : Len(parts[i]) > 0

FloatValue(s) ==
    LET u == Unsigned(s)
        parts == Split(u, ".")
        frac == IF Len(parts) = 2 THEN parts[2] ELSE <<>>
    IN  Float(SignOf(s) * (DigitsVal(parts[1]) * Pow10(Len(frac)) + DigitsVal(frac)),
              Len(frac))

FloatOfStr(s) ==
    IF FloatLiteral(s) THEN Ok(FloatValue(s)) ELSE Raise("ValueError")

\* int(float): truncation toward zero
IntOfFloat(f) ==
    IF f.mant >= 0 THEN f.mant \div Pow10(f.exp)
    ELSE -((-f.mant) \div Pow10(f.exp))

\* chaining of calls: the first exception leaves the function
Bind(o, F(_)) == IF o.ok THEN F(o.val) ELSE o

\* ------------------------------------------------------------- pandas ----
\* the values a DataFrame holds
IntCell(v) == [t |-> "int", v |-> v]
FloatCell(f) == [t |-> "float", f |-> f]
NaN == [t |-> "nan"]
StrCell(s) == [t |-> "str", s |-> s]

\* int(x) of a value taken from a row
PyInt(c) ==
    CASE c.t = "int" -> Ok(c.v)
      [] c.t = "float" -> Ok(IntOfFloat(c.f))
      [] c.t = "nan" -> Raise("ValueError")
      [] c.t = "str" -> IntOfStr(c.s)

\* float(x) of a value; NotANumber is float('nan')
NotANumber == [nan |-> TRUE]
PyFloat(c) ==
    CASE c.t = "int" -> Ok(Float(c.v, 0))
      [] c.t = "float" -> Ok(c.f)
      [] c.t = "nan" -> Ok(NotANumber)
      [] c.t = "str" -> FloatOfStr(c.s)

\* x > 0 for a numeric value (NaN compares false)
Positive(c) ==
    CASE c.t = "int" -> c.v > 0
      [] c.t = "float" -> c.f.mant > 0
      [] OTHER -> FALSE

\* field j (1-based) of a parsed line, blank when the line is short
FieldOf(fields, j) == IF j <= Len(fields) THEN fields[j] ELSE <<>>

\* the dtype read_csv infers for column j of the data rows
InferDtype(rows, j) ==
    IF rows = <<>> THEN "object"
    ELSE IF \A i \in 1..Len(rows) : IntLiteral(FieldOf(rows[i], j)) THEN "int64"
    ELSE IF \A i \in 1..Len(rows) :
               FieldOf(rows[i], j) = <<>> \/ FloatLiteral(FieldOf(rows[i], j))
         THEN "float64"
    ELSE "object"

ParseCell(s, dtype) ==
    CASE dtype = "int64" -> IntCell(IntOfStr(s).val)
      [] dtype = "float64" -> IF s = <<>> THEN NaN ELSE FloatCell(FloatValue(s))
      [] OTHER -> IF s = <<>> THEN NaN ELSE StrCell(s)

\* pd.read_csv(io.StringIO(text)) with its defaults: blank lines are
\* skipped, the first line is the header, every column gets one dtype
read_csv(text) ==
    LET nonblank == SelectSeq(Split(text, "\n"), LAMBDA l : l # <<>>)
    IN  IF nonblank = <<>> THEN Raise("EmptyDataError")
        ELSE LET header == Split(nonblank[1], ",")
                 n == Len(header)
                 rows == [i \in 1..(Len(nonblank) - 1) |-> Split(nonblank[i + 1], ",")]
                 dtypes == [j \in 1..n |-> InferDtype(rows, j)]
             IN  IF \E i \in 1..Len(rows) : Len(rows[i]) > n
                 THEN Raise("ParserError")
                 ELSE Ok([columns |-> header,
                          dtypes |-> dtypes,
                          rows |-> [i \in 1..Len(rows) |->
                                      [j \in 1..n |->
                                          ParseCell(FieldOf(rows[i], j), dtypes[j])]]])

Range(s) == {s[i] : i \in 1..Len(s)}
IndexOf(s, x) == CHOOSE i \in 1..Len(s) : s[i] = x

\* df.columns = asc_col: the rows become addressable by the new names
SetColumns(df, asc_col) ==
    IF Len(asc_col) # Len(df.columns) THEN Raise("ValueError")
    ELSE Ok([columns |-> asc_col,
             dtypes |-> [c \in Range(asc_col) |-> df.dtypes[IndexOf(asc_col, c)]],
             rows |-> [i \in 1..Len(df.rows) |->
                         [c \in Range(asc_col) |-> df.rows[i][IndexOf(asc_col, c)]]]])

\* df.query('<col> > 0').iloc[::-1]
QueryPositiveReversed(df, col) ==
    IF df.rows # <<>> /\ df.dtypes[col] = "object" THEN Raise("TypeError")
    ELSE Ok(Reverse(SelectSeq(df.rows, LAMBDA r : Positive(r[col]))))

\* frame.iloc[0]
Iloc0(rows) == IF rows = <<>> THEN Raise("IndexError") ELSE Ok(rows[1])

\* series.fillna(0)
fillna0(row) == [c \in DOMAIN row |-> IF row[c].t = "nan" THEN IntCell(0) ELSE row[c]]

\* ------------------------------------------------------------ datetime ---
\* datetime.datetime(year, month, day, hour, minute, 0, tzinfo=...).isoformat()
DateTime(year, month, day, hour, minute) ==
    IF hour \in 0..23 /\ minute \in 0..59
    THEN Ok([year |-> year, month |-> month, day |-> day,
             hour |-> hour, minute |-> minute])
    ELSE Raise("ValueError")

\* now.isoformat().split('T')[0]
DateOf(t) == [year |-> t.year, month |-> t.month, day |-> t.day]

\* ------------------------------------------------------------ CsvData ---
\* DemandData(date, time, demand)
DemandData(date, time, demand) ==
    [class |-> "DemandData", date |-> date, time |-> time, demand |-> demand]

\* DemandData.get_demand_as_float
get_demand_as_float(dd) == PyFloat(dd.demand)

\* lines[i].split(','), an IndexError when the line does not exist
LineFields(d, i) ==
    IF HasIndex(d.lines, i) THEN Ok(Split(At(d.lines, i), ",")) ELSE Raise("IndexError")

\* list[i], an IndexError when the list is too short
Item(list, i) == IF HasIndex(list, i) THEN Ok(At(list, i)) ELSE Raise("IndexError")

\* CsvData.get_peak_supply
get_peak_supply(d, supply_line) ==
    Bind(LineFields(d, supply_line), LAMBDA peak_supply_list :
    Item(peak_supply_list, 0))

\* CsvData.get_peak_supply_as_float
get_peak_supply_as_float(d) ==
    Bind(get_peak_supply(d, AmountSupplyLine), LAMBDA peak_supply :
    FloatOfStr(peak_supply))

\* reserve_pct = 0 is an int already; otherwise the field is a str
ReservePct(d, peak_supply_list) ==
    IF d.include_reserve_pct
    THEN Bind(Item(peak_supply_list, 4), LAMBDA s : Ok(StrCell(s)))
    ELSE Ok(IntCell(0))

\* CsvData.get_peak_demand_gql
get_peak_demand_gql(d, peak_type) ==
    LET supply_line == IF peak_type = "AMOUNT" THEN AmountSupplyLine ELSE PctSupplyLine
        demand_line == IF peak_type = "AMOUNT" THEN AmountDemandLine ELSE PctDemandLine
    IN  Bind(LineFields(d, supply_line), LAMBDA peak_supply_list :
        Bind(Item(peak_supply_list, 0), LAMBDA peak_supply :
        Bind(LineFields(d, demand_line), LAMBDA peak_demand_list :
        Bind(Item(peak_demand_list, 0), LAMBDA peak_demand :
        Bind(Item(peak_demand_list, 1), LAMBDA expected_hour :
        Bind(Item(peak_supply_list, IF d.include_reserve_pct THEN 5 ELSE 4),
             LAMBDA percentage :
        Bind(ReservePct(d, peak_supply_list), LAMBDA reserve_pct :
        Bind(IntOfStr(percentage), LAMBDA int_percentage :
        Bind(PyInt(reserve_pct), LAMBDA int_reserve_pct :
        Bind(IntOfStr(peak_demand), LAMBDA int_peak_demand :
        Bind(IntOfStr(peak_supply), LAMBDA int_peak_supply :
        Ok([area |-> d.area_id,
            date_type |-> <<d.today, peak_type>>,
            date |-> d.today,
            expectedHour |-> expected_hour,
            type |-> peak_type,
            percentage |-> int_percentage,
            reservePct |-> int_reserve_pct,
            isTomorrow |-> FALSE,
            amount |-> int_peak_demand,
            supply |-> int_peak_supply])
        )))))))))))

FiveMinColumns(d) ==
    IF d.include_wind THEN <<"DATE", "TIME", "DEMAND", "SOLAR", "WIND">>
    ELSE <<"DATE", "TIME", "DEMAND", "SOLAR">>

\* back_to_lines_str
back_to_lines_str(split_list) == Join(split_list, "\n")

\* CsvData.get_five_min_list
get_five_min_list(d) ==
    LET five_min_list == Slice(d.lines, d.five_min_start, d.five_min_start + FiveSpan)
    IN  Bind(read_csv(back_to_lines_str(five_min_list)), LAMBDA five_min_csv :
        SetColumns(five_min_csv, FiveMinColumns(d)))

\* a selection that lost its query: the last row of the frame, valid or not
LatestDemandRow_noQuery(frame) == Iloc0(Reverse(frame.rows))

\* the selection shared by the four get_last_* methods:
\* frame.query('DEMAND > 0').iloc[::-1].iloc[0]
LatestDemandRow(frame) ==
    Bind(QueryPositiveReversed(frame, "DEMAND"), LAMBDA reverse :
    Iloc0(reverse))

\* CsvData.get_last_five_min_demand
get_last_five_min_demand(d) ==
    Bind(get_five_min_list(d), LAMBDA five_min_csv :
    Bind(LatestDemandRow(five_min_csv), LAMBDA five_min_latest :
    Ok(DemandData(five_min_latest.DATE, five_min_latest.TIME, five_min_latest.DEMAND))))

\* [hour, minute] = time.split(':'): an AttributeError when the value is
\* not a str, a ValueError when there are not exactly two parts
SplitTime(c) ==
    IF c.t # "str" THEN Raise("AttributeError")
    ELSE IF Len(Split(c.s, ":")) # 2 THEN Raise("ValueError")
    ELSE Ok(Split(c.s, ":"))

\* the wind value of a row: 0 unless the area publishes wind
WindOf(d, row) == IF d.include_wind THEN PyInt(row.WIND) ELSE Ok(0)

\* a five-minute record stamped the way the hourly record is, at minute 0
FiveMinItem_hourOnly(d, t, row) ==
    Bind(WindOf(d, row), LAMBDA wind :
    Bind(SplitTime(row.TIME), LAMBDA hm :
    Bind(IntOfStr(hm[1]), LAMBDA hour :
    Bind(DateTime(t.year, t.month, t.day, hour, 0), LAMBDA abs_date :
    Bind(PyInt(row.SOLAR), LAMBDA solar :
    Bind(PyInt(row.DEMAND), LAMBDA amount :
    Ok([area |-> d.area_id,
        absDate |-> abs_date,
        date |-> d.today,
        time |-> row.TIME.s,
        amount |-> amount,
        solar |-> solar,
        wind |-> wind,
        createdAt |-> t])
    ))))))

\* the record built from one (filled) five-minute row, lines 220-243 for
\* the demand-latest row and lines 255-276 for the solar-latest row
FiveMinItem(d, t, row) ==
    Bind(WindOf(d, row), LAMBDA wind :
    Bind(SplitTime(row.TIME), LAMBDA hm :
    Bind(IntOfStr(hm[1]), LAMBDA hour :
    Bind(IntOfStr(hm[2]), LAMBDA minute :
    Bind(DateTime(t.year, t.month, t.day, hour, minute), LAMBDA abs_date :
    Bind(PyInt(row.SOLAR), LAMBDA solar :
    Bind(PyInt(row.DEMAND), LAMBDA amount :
    Ok([area |-> d.area_id,
        absDate |-> abs_date,
        date |-> d.today,
        time |-> row.TIME.s,
        amount |-> amount,
        solar |-> solar,
        wind |-> wind,
        createdAt |-> t])
    )))))))

\* a call's result: its outcome and the items it put into the table
Call(out, puts) == [out |-> out, puts |-> puts]
NoPut(out) == Call(out, {})

\* table.put_item(Item=solar_item) on JED_FiveMinDemand, then return
PutSolarItem(solar_item) ==
    Call(Ok(solar_item), {[table |-> "JED_FiveMinDemand", item |-> solar_item]})

\* the solar record, once built, is put and returned
PutIfBuilt(solar_item) ==
    IF ~solar_item.ok THEN NoPut(solar_item) ELSE PutSolarItem(solar_item.val)

\* lines 252-279: the solar-latest row is known
SolarLatestKnown(d, t, item, latest) ==
    IF ~latest.ok THEN NoPut(latest)
    ELSE IF StrCell(item.time) = latest.val.TIME THEN NoPut(Ok(item))
    ELSE PutIfBuilt(FiveMinItem(d, t, latest.val))

\* lines 248-281: the branch taken when the demand-latest row has no solar
SolarBranch(d, t, five_min_csv, item) ==
    SolarLatestKnown(d, t, item,
        Bind(QueryPositiveReversed(five_min_csv, "SOLAR"), LAMBDA five_min_solar_reverse :
        Bind(Iloc0(five_min_solar_reverse), LAMBDA r : Ok(fillna0(r)))))

\* lines 245-281: the demand-latest record is built
ItemBuilt(d, t, five_min_csv, item) ==
    IF ~item.ok THEN NoPut(item)
    ELSE IF item.val.solar = 0 THEN SolarBranch(d, t, five_min_csv, item.val)
    ELSE NoPut(Ok(item.val))

\* lines 218-281: the five-minute frame is read
FrameRead(d, t, five_min_csv) ==
    IF ~five_min_csv.ok THEN NoPut(five_min_csv)
    ELSE ItemBuilt(d, t, five_min_csv.val,
             Bind(LatestDemandRow(five_min_csv.val), LAMBDA r :
             FiveMinItem(d, t, fillna0(r))))

\* CsvData.get_last_five_min_demand_gql
get_last_five_min_demand_gql(d, t) == FrameRead(d, t, get_five_min_list(d))

HourColumns(d) ==
    IF d.include_five_min_reserve
    THEN <<"DATE", "TIME", "DEMAND", "EXPECTED", "PERCENTAGE", "RESERVE_PCT", "SUPPLY">>
    ELSE <<"DATE", "TIME", "DEMAND", "EXPECTED", "PERCENTAGE", "SUPPLY">>

\* CsvData.get_hour_list
get_hour_list(d) ==
    LET hour_list == Slice(d.lines, d.hourly_start, d.hourly_start + HourSpan)
    IN  Bind(read_csv(back_to_lines_str(hour_list)), LAMBDA hour_csv :
        SetColumns(hour_csv, HourColumns(d)))

\* hour_latest.TIME.split(":")[0]
HourPart(c) ==
    IF c.t # "str" THEN Raise("AttributeError") ELSE Ok(Split(c.s, ":")[1])

\* CsvData.get_last_hour_demand_gql
get_last_hour_demand_gql(d, t) ==
    Bind(get_hour_list(d), LAMBDA hour_csv :
    Bind(LatestDemandRow(hour_csv), LAMBDA r :
    LET hour_latest == fillna0(r)
    IN  Bind(HourPart(hour_latest.TIME), LAMBDA hour_str :
        Bind(IntOfStr(hour_str), LAMBDA hour_latest_val :
        Bind(DateTime(t.year, t.month, t.day, hour_latest_val, 0), LAMBDA abs_date :
        Bind(PyInt(hour_latest.DEMAND), LAMBDA amount :
        Bind(PyInt(hour_latest.SUPPLY), LAMBDA supply :
        Bind(PyInt(hour_latest.PERCENTAGE), LAMBDA percentage :
        Ok([area |-> d.area_id,
            absDate |-> abs_date,
            date |-> d.today,
            hour |-> hour_latest_val,
            amount |-> amount,
            supply |-> supply,
            percentage |-> percentage,
            createdAt |-> t])
        ))))))))

\* CsvData.get_last_hour_demand
get_last_hour_demand(d) ==
    Bind(get_hour_list(d), LAMBDA hour_csv :
    Bind(LatestDemandRow(hour_csv), LAMBDA hour_latest :
    Ok(DemandData(hour_latest.DATE, hour_latest.TIME, hour_latest.DEMAND))))

\* a quotient of two floats, kept exact as num / den with den > 0 (the
\* rounding of binary floating point is not modelled)
Ratio(n, d) == IF d < 0 THEN [num |-> -n, den |-> -d] ELSE [num |-> n, den |-> d]

\* dm / supply * 100 on floats (supply comes from float(str) of a decimal
\* literal, so it is a number)
DivideTimes100(dm, supply) ==
    IF supply.mant = 0 THEN Raise("ZeroDivisionError")
    ELSE IF "nan" \in DOMAIN dm THEN Ok(NotANumber)
    ELSE Ok(Ratio(dm.mant * Pow10(supply.exp) * 100, supply.mant * Pow10(dm.exp)))

\* CsvData.percentage_as_float
percentage_as_float(d, demand) ==
    Bind(get_peak_supply_as_float(d), LAMBDA supply :
    Bind(IF "class" \in DOMAIN demand THEN get_demand_as_float(demand) ELSE Ok(demand),
         LAMBDA dm :
    DivideTimes100(dm, supply)))

\* str(n) for n >= 0
RECURSIVE NatStr(_)
NatStr(n) == IF n < 10 THEN <<DigitChar(n)>> ELSE NatStr(n \div 10) \o <<DigitChar(n % 10)>>

Abs(n) == IF n < 0 THEN -n ELSE n

\* "{0:.2f}".format(x): x rounded to hundredths, ties to even
Format2f(x) ==
    IF "nan" \in DOMAIN x THEN <<"n", "a", "n">>
    ELSE LET a == Abs(x.num) * 100
             q == a \div x.den
             r == a % x.den
             h == IF 2 * r > x.den \/ (2 * r = x.den /\ q % 2 = 1) THEN q + 1 ELSE q
         IN  (IF x.num < 0 THEN <<"-">> ELSE <<>>)
             \o NatStr(h \div 100) \o <<".">>
             \o <<DigitChar((h % 100) \div 10), DigitChar(h % 10)>>

\* CsvData.percentage
percentage(d, demand) ==
    Bind(percentage_as_float(d, demand), LAMBDA x : Ok(Format2f(x)))

\* CsvData.__init__: the payload either decodes as shift-jis into lines or
\* does not
CsvData(area_id, content, five_min_start, hourly_start, include_wind, include_reserve_pct, include_five_min_reserve, t) ==
    IF ~content.decodable THEN Raise("UnicodeDecodeError")
    ELSE Ok([area_id |-> area_id,
             lines |-> content.lines,
             five_min_start |-> five_min_start,
             hourly_start |-> hourly_start,
             today |-> DateOf(t),
             include_wind |-> include_wind,
             include_reserve_pct |-> include_reserve_pct,
             include_five_min_reserve |-> include_five_min_reserve])

\* ------------------------------------------------ process_csv_content ----
\* traceback.format_exc(): the text names the exception and the frames it
\* passed through (frame is the entry of mutation_argument being built, or
\* "CsvData" for the constructor); it does not hold the area id
Traceback(exc, frame) == [type |-> "str", exc |-> exc, frame |-> frame]

\* the dict literal of lines 398-403: its entries are evaluated in order
\* and the first exception leaves it, with the frame it came from
MutationArgument(peak, peakPct, hourly, five) ==
    IF ~peak.ok THEN [out |-> peak, frame |-> "peak", puts |-> {}]
    ELSE IF ~peakPct.ok THEN [out |-> peakPct, frame |-> "peakPct", puts |-> {}]
    ELSE IF ~hourly.ok THEN [out |-> hourly, frame |-> "hourly", puts |-> {}]
    ELSE IF ~five.out.ok THEN [out |-> five.out, frame |-> "five", puts |-> five.puts]
    ELSE [out |-> Ok([type |-> "dict",
                      peak |-> peak.val,
                      peakPct |-> peakPct.val,
                      hourly |-> hourly.val,
                      five |-> five.out.val]),
          frame |-> "",
          puts |-> five.puts]

\* the body of the try block once the object is constructed
TryBody(d, t) ==
    MutationArgument(get_peak_demand_gql(d, "AMOUNT"),
                     get_peak_demand_gql(d, "PERCENTAGE"),
                     get_last_hour_demand_gql(d, t),
                     get_last_five_min_demand_gql(d, t))

\* a handler that answers a failure with an empty mapping
Except_emptyDict(body) == IF body.out.ok THEN body.out ELSE Ok([type |-> "dict"])

\* except: return traceback.format_exc()
Except(body) ==
    IF body.out.ok THEN body.out ELSE Ok(Traceback(body.out.exc, body.frame))

\* what the call leaves: its return value, the items put, the object
Returning(obj, body) == [out |-> Except(body), puts |-> body.puts, obj |-> obj]

\* the try statement of lines 388-406, given the outcome of CsvData(...)
Try(obj, t) ==
    IF ~obj.ok
    THEN [out |-> Except([out |-> obj, frame |-> "CsvData"]), puts |-> {}, obj |-> obj]
    ELSE Returning(obj, TryBody(obj.val, t))

\* process_csv_content
process_csv_content(area_id, content, five_min_start, hourly_start, include_wind, include_reserve_pct, include_five_min_reserve, t) ==
    Try(CsvData(area_id, content, five_min_start, hourly_start, include_wind,
                include_reserve_pct, include_five_min_reserve, t), t)

\* ----------------------------------------------------------- the inputs --
\* AreaInfo from the configuration service: one entry per area.  The
\* hourly block follows the peak blocks and the five-minute block follows
\* the hourly block; area "03" is configured with a five-minute offset
\* beyond the end of the file.
HourlyPos == PctDemandLine + 1
FiveMinPos == HourlyPos + HourSpan
FileLen == FiveMinPos + FiveSpan

Area(code, five, flag) ==
    [code |-> code, csvHourlyPos |-> HourlyPos, csvFiveMinPos |-> five,
     hasWindData |-> flag, hasPeakReserveData |-> flag, hasFiveMinReserveData |-> flag]

area_config ==
    {Area("01", FiveMinPos, FALSE), Area("02", FiveMinPos, TRUE),
     Area("03", FileLen + 2, FALSE)}

H == <<"h">>
HeaderLine(n) == Join([i \in 1..n |-> H], ",")

S0 == <<"0">>
S50 == <<"5", "0">>

\* the peak blocks of the file: the supply of the amount block is 50, 0
\* or -50, and the percentage of the percentage block is whole or not
PeakKinds == {"plain", "zero", "negative", "fractional"}

AmountSupply(kind) ==
    CASE kind = "zero" -> S0
      [] kind = "negative" -> <<"-">> \o S50
      [] OTHER -> S50

PctPercentage(kind) ==
    IF kind = "fractional" THEN <<"9", "6", ".", "5">> ELSE <<"9", "6">>

SupplyLine(area, supply, pct) ==
    Join(<<supply, H, H, H>>
         \o (IF area.hasPeakReserveData THEN <<<<"7">>>> ELSE <<>>)
         \o <<pct>>, ",")

PeakBlock(area, kind) ==
    << H, H,
       SupplyLine(area, AmountSupply(kind), <<"9", "3">>),
       <<>>, H,
       Join(<<<<"4", "6">>, <<"1", "4">>>>, ","),
       <<>>, H,
       SupplyLine(area, S50, PctPercentage(kind)),
       <<>>, H,
       Join(<<<<"4", "8">>, <<"1", "5">>>>, ",") >>

DateStr == <<"1", "/", "1">>
TwoDigits(n) == <<DigitChar(n \div 10), DigitChar(n % 10)>>

\* the hourly block: the first k hours are published, the later rows hold
\* the placeholder; the published demand is fractional in odd rows
HourTime(j) == NatStr(j) \o <<":">> \o (IF j % 2 = 0 THEN <<"3", "0">> ELSE <<"0", "0">>)
HourDemand(j) ==
    IF j % 2 = 1 THEN <<"4", "4", ".", "9">> ELSE <<"4", "3">>

HourRow(area, j, demand) ==
    Join(<<DateStr, HourTime(j), demand, <<"4", "4">>, <<"8", "8", ".", "6">>>>
         \o (IF area.hasFiveMinReserveData THEN <<<<"1", "1">>>> ELSE <<>>)
         \o <<S50>>, ",")

HourBlock(area, k, placeholder) ==
    <<HeaderLine(IF area.hasFiveMinReserveData THEN 7 ELSE 6)>>
    \o [j \in 1..(HourSpan - 1) |->
          HourRow(area, j, IF j <= k THEN HourDemand(j) ELSE placeholder)]

\* the five-minute block: every row has a demand that is blank, zero or
\* positive and a solar output that is zero or positive
DemandKinds == {"blank", "zero", "positive"}
SolarKinds == {"zero", "positive"}
FiveRowKinds == [demand : DemandKinds, solar : SolarKinds]

FiveTime(j) == <<"1", "2", ":">> \o TwoDigits(5 * j)
FiveDemand(j, kind) ==
    CASE kind = "blank" -> <<>>
      [] kind = "zero" -> S0
      [] OTHER -> IF j % 2 = 1 THEN <<"4", "5", ".", "7">>
                  ELSE <<"4", "6">>
FiveSolar(kind) == IF kind = "zero" THEN S0 ELSE <<"3">>

FiveRow(area, j, kind) ==
    Join(<<DateStr, FiveTime(j), FiveDemand(j, kind.demand), FiveSolar(kind.solar)>>
         \o (IF area.hasWindData THEN <<<<"2", "0">>>> ELSE <<>>), ",")

FiveBlock(area, kinds) ==
    <<HeaderLine(IF area.hasWindData THEN 5 ELSE 4)>>
    \o [j \in 1..Len(kinds) |-> FiveRow(area, j, kinds[j])]

\* the file the area publishes; its last cut lines are missing, so that the
\* five-minute block holds FiveSpan - cut lines (kinds describes the data
\* rows that are left)
Cuts == 0..FiveSpan
RowsLeft(cut) == IF cut < FiveSpan THEN FiveSpan - 1 - cut ELSE 0
FiveKinds(cut) == [1..RowsLeft(cut) -> FiveRowKinds]

FileLines(area, peak, k, placeholder, kinds, cut) ==
    PeakBlock(area, peak) \o HourBlock(area, k, placeholder)
    \o (IF cut = FiveSpan THEN <<>> ELSE FiveBlock(area, kinds))

\* requests.get(url).content: bytes that decode to the file's lines, or
\* bytes that are not shift-jis
Bytes(lines) == [decodable |-> TRUE, lines |-> lines]
Undecodable == [decodable |-> FALSE]

HourKinds == (0..(HourSpan - 1)) \X {<<>>, S0}

\* a fully published day
Published == [j \in 1..(FiveSpan - 1) |-> [demand |-> "positive", solar |-> "positive"]]

Clocks ==
    {[year |-> 2024, month |-> 1, day |-> 1, hour |-> 0, minute |-> 30],
     [year |-> 2024, month |-> 1, day |-> 1, hour |-> 13, minute |-> 7]}

\* the demands a caller hands to percentage / percentage_as_float: a float,
\* a DemandData holding the amount as a string, or the latest reading
DemandArgs(d) ==
    {Float(45, 0), DemandData(StrCell(DateStr), StrCell(FiveTime(1)), StrCell(<<"4", "9">>))}
    \cup (IF get_last_five_min_demand(d).ok THEN {get_last_five_min_demand(d).val} ELSE {})

\* ------------------------------------------------------------- actions ---
NoData == [none |-> TRUE]
Returned(op, arg, out) == [op |-> op, arg |-> arg, out |-> out]

Init ==
    /\ now \in Clocks
    /\ pc = "start"
    /\ data = NoData
    /\ ret = Returned("", <<>>, Ok(<<>>))
    /\ stdout = <<>>
    /\ store = {}

\* _main before one o'clock: nothing is fetched
Main_NoFetch ==
    /\ pc = "start"
    /\ now.hour = 0
    /\ pc' = "exit"
    /\ stdout' = <<"It's before 1 o'clock: no fetch performed.">>
    /\ ret' = Returned("_main", <<>>, Ok([type |-> "dict"]))
    /\ UNCHANGED <<now, data, store>>

\* print(process_csv_content(...)) for one area, r being what the call left
PrintResult(area, r) ==
    /\ data' = IF r.obj.ok THEN r.obj.val ELSE NoData
    /\ ret' = Returned("process_csv_content", area.code, r.out)
    /\ stdout' = <<r.out.val>>
    /\ store' = store \cup r.puts

Process(area, content) ==
    PrintResult(area, process_csv_content(area.code, content, area.csvFiveMinPos,
                          area.csvHourlyPos, area.hasWindData, area.hasPeakReserveData,
                          area.hasFiveMinReserveData, now))

\* one iteration of the loop of _main, on the file the area publishes
Main_Area ==
    /\ pc = "start"
    /\ now.hour # 0
    /\ \E area \in area_config :
          \/ Process(area, Undecodable)
          \/ \E peak \in PeakKinds, h \in HourKinds, cut \in Cuts :
                \E kinds \in FiveKinds(cut) :
                   Process(area, Bytes(FileLines(area, peak, h[1], h[2], kinds, cut)))
    /\ pc' = "returned"
    /\ UNCHANGED now

Constructed(area, obj) ==
    /\ data' = IF obj.ok THEN obj.val ELSE NoData
    /\ pc' = IF obj.ok THEN "constructed" ELSE "called"
    /\ ret' = Returned("CsvData", area.code, IF obj.ok THEN Ok(<<>>) ELSE obj)

Construct(area, content) ==
    Constructed(area, CsvData(area.code, content, area.csvFiveMinPos,
                          area.csvHourlyPos, area.hasWindData, area.hasPeakReserveData,
                          area.hasFiveMinReserveData, now))

\* CsvData(...) constructed by a caller that uses the class method by
\* method: every method reads one block of the file, so one block varies at
\* a time while the others hold a fully published day
CsvData_init ==
    /\ pc = "start"
    /\ \E area \in area_config :
          \/ Construct(area, Undecodable)
          \/ \E peak \in PeakKinds :
                Construct(area, Bytes(FileLines(area, peak, HourSpan - 1, <<>>, Published, 0)))
          \/ \E h \in HourKinds :
                Construct(area, Bytes(FileLines(area, "plain", h[1], h[2], Published, 0)))
          \/ \E cut \in Cuts : \E kinds \in FiveKinds(cut) :
                Construct(area, Bytes(FileLines(area, "plain", HourSpan - 1, <<>>, kinds, cut)))
    /\ UNCHANGED <<now, stdout, store>>

\* a method without side effects called on the object
Pure(op, arg, out) ==
    /\ pc = "constructed"
    /\ pc' = "called"
    /\ ret' = Returned(op, arg, out)
    /\ UNCHANGED <<now, data, stdout, store>>

Call_get_peak_supply ==
    \E line \in {AmountSupplyLine, PctSupplyLine} :
        Pure("get_peak_supply", line, get_peak_supply(data, line))

Call_get_peak_supply_as_float ==
    Pure("get_peak_supply_as_float", <<>>, get_peak_supply_as_float(data))

Call_get_peak_demand_gql ==
    \E peak_type \in {"AMOUNT", "PERCENTAGE"} :
        Pure("get_peak_demand_gql", peak_type, get_peak_demand_gql(data, peak_type))

Call_get_five_min_list ==
    Pure("get_five_min_list", <<>>, get_five_min_list(data))

Call_get_last_five_min_demand ==
    Pure("get_last_five_min_demand", <<>>, get_last_five_min_demand(data))

\* a method that writes to the table, r being what the call left
Effect(op, r) ==
    /\ pc = "constructed"
    /\ pc' = "called"
    /\ ret' = Returned(op, <<>>, r.out)
    /\ store' = store \cup r.puts
    /\ UNCHANGED <<now, data, stdout>>

Call_get_last_five_min_demand_gql ==
    Effect("get_last_five_min_demand_gql", get_last_five_min_demand_gql(data, now))

Call_get_hour_list ==
    Pure("get_hour_list", <<>>, get_hour_list(data))

Call_get_last_hour_demand_gql ==
    Pure("get_last_hour_demand_gql", <<>>, get_last_hour_demand_gql(data, now))

Call_get_last_hour_demand ==
    Pure("get_last_hour_demand", <<>>, get_last_hour_demand(data))

Call_percentage_as_float ==
    /\ pc = "constructed"
    /\ \E demand \in DemandArgs(data) :
          Pure("percentage_as_float", demand, percentage_as_float(data, demand))

Call_percentage ==
    /\ pc = "constructed"
    /\ \E demand \in DemandArgs(data) :
          Pure("percentage", demand, percentage(data, demand))

Next ==
    \/ Main_NoFetch
    \/ Main_Area
    \/ CsvData_init
    \/ Call_get_peak_supply
    \/ Call_get_peak_supply_as_float
    \/ Call_get_peak_demand_gql
    \/ Call_get_five_min_list
    \/ Call_get_last_five_min_demand
    \/ Call_get_last_five_min_demand_gql
    \/ Call_get_hour_list
    \/ Call_get_last_hour_demand_gql
    \/ Call_get_last_hour_demand
    \/ Call_percentage_as_float
    \/ Call_percentage

Spec == Init /\ [][Next]_vars

\* =============================================================== claims ==
\* vocabulary of the claims
FiveSelectors == {"get_last_five_min_demand", "get_last_five_min_demand_gql"}
HourSelectors == {"get_last_hour_demand", "get_last_hour_demand_gql"}
Selectors == FiveSelectors \cup HourSelectors

\* a method of the class has returned or raised
Called(ops) == pc = "called" /\ ret.op \in ops

\* the region the method selects from
RegionOf(op) == IF op \in FiveSelectors THEN get_five_min_list(data) ELSE get_hour_list(data)

\* the rows of a region whose field is a positive number
RowsWith(frame, col) == {i \in 1..Len(frame.rows) : Positive(frame.rows[i][col])}
MaxOf(S) == CHOOSE i \in S : \A j \in S : j <= i
LatestWith(frame, col) == frame.rows[MaxOf(RowsWith(frame, col))]

\* a field that is zero or missing
ZeroOrBlank(c) ==
    \/ c.t = "nan"
    \/ c.t = "int" /\ c.v = 0
    \/ c.t = "float" /\ c.f.mant = 0

\* hour and minute of a TIME text HH:MM
HourOfTime(time) == DigitsVal(Split(time, ":")[1])
MinuteOfTime(time) == DigitsVal(Split(time, ":")[2])

\* what a reading returned by a selector says about the row it was taken from
ReadingIsRow(op, v, row) ==
    CASE op \in {"get_last_five_min_demand", "get_last_hour_demand"} ->
            v.date = row.DATE /\ v.time = row.TIME /\ v.demand = row.DEMAND
      [] op = "get_last_five_min_demand_gql" ->
            v.time = row.TIME.s /\ v.amount = PyInt(row.DEMAND).val
      [] op = "get_last_hour_demand_gql" ->
            v.hour = HourOfTime(row.TIME.s) /\ v.amount = PyInt(row.DEMAND).val

\* C1: for every region holding a row with DEMAND > 0, each of the four
\* latest-reading selections returns the row with the largest index among
\* the rows with DEMAND > 0
C1_LatestValidRowSelected ==
    Called(Selectors) =>
        LET frame == RegionOf(ret.op)
        IN  (frame.ok /\ RowsWith(frame.val, "DEMAND") # {}) =>
                /\ ret.out.ok
                /\ ReadingIsRow(ret.op, ret.out.val, LatestWith(frame.val, "DEMAND"))

\* C2: for every region whose DEMAND fields are all zero or blank, each of
\* the four latest-reading selections ends in an error and yields no reading
C2_NoValidReadingRaises ==
    Called(Selectors) =>
        LET frame == RegionOf(ret.op)
        IN  (frame.ok /\ \A i \in 1..Len(frame.val.rows) :
                            ZeroOrBlank(frame.val.rows[i].DEMAND)) =>
                ~ret.out.ok

\* C2 witness: the gql five-minute selection has raised on a region that
\* holds both a blank and a zero demand and nothing else
C2_Witness ==
    /\ Called({"get_last_five_min_demand_gql"})
    /\ ~ret.out.ok
    /\ LET frame == RegionOf(ret.op)
       IN  /\ frame.ok
           /\ \A i \in 1..Len(frame.val.rows) : ZeroOrBlank(frame.val.rows[i].DEMAND)
           /\ \E i \in 1..Len(frame.val.rows) : frame.val.rows[i].DEMAND.t = "nan"
           /\ \E i \in 1..Len(frame.val.rows) : frame.val.rows[i].DEMAND.t = "float"

\* C3: whenever the requested span of rows exceeds the number of lines,
\* region extraction fails instead of returning a region
C3_SpanBeyondFileFails ==
    /\ Called({"get_five_min_list"}) =>
          (data.five_min_start + FiveSpan > Len(data.lines) => ~ret.out.ok)
    /\ Called({"get_hour_list"}) =>
          (data.hourly_start + HourSpan > Len(data.lines) => ~ret.out.ok)

\* the first entry of the mutation argument whose extraction fails, "" when
\* none does
FailedFrame ==
    IF data = NoData THEN "CsvData"
    ELSE IF ~get_peak_demand_gql(data, "AMOUNT").ok THEN "peak"
    ELSE IF ~get_peak_demand_gql(data, "PERCENTAGE").ok THEN "peakPct"
    ELSE IF ~get_last_hour_demand_gql(data, now).ok THEN "hourly"
    ELSE IF ~get_last_five_min_demand_gql(data, now).out.ok THEN "five"
    ELSE ""

FiveRecordOf(frame, col) == FiveMinItem(data, now, fillna0(LatestWith(frame, col))).val

\* C5: whenever the latest row with SOLAR > 0 and the latest row with
\* DEMAND > 0 differ in TIME, the five-minute extraction emits both records
C5_BothRecordsEmitted ==
    Called({"get_last_five_min_demand_gql"}) =>
        LET frame == RegionOf(ret.op)
        IN  (/\ frame.ok
             /\ RowsWith(frame.val, "DEMAND") # {}
             /\ RowsWith(frame.val, "SOLAR") # {}
             /\ LatestWith(frame.val, "SOLAR").TIME # LatestWith(frame.val, "DEMAND").TIME) =>
                /\ ret.out.ok
                /\ {FiveRecordOf(frame.val, "DEMAND"), FiveRecordOf(frame.val, "SOLAR")}
                      \subseteq {ret.out.val}

\* the demand handed to percentage, as a float
DemandOf(arg) == IF "class" \in DOMAIN arg THEN get_demand_as_float(arg).val ELSE arg

\* C6: the utilization is 100 * demand / peakSupply for a positive peak
\* supply and an error for every peak supply that is zero or negative
C6_NonPositiveSupplyFails ==
    Called({"percentage_as_float"}) =>
        LET supply == get_peak_supply_as_float(data)
        IN  supply.ok =>
               /\ supply.val.mant <= 0 => ~ret.out.ok
               /\ supply.val.mant > 0 =>
                     /\ ret.out.ok
                     /\ ret.out.val.num * supply.val.mant * Pow10(DemandOf(ret.arg).exp)
                           = 100 * DemandOf(ret.arg).mant * Pow10(supply.val.exp)
                               * ret.out.val.den

\* the fields of the peak block a peak record is built from
PeakSupplyFields(peak_type) ==
    Split(At(data.lines, IF peak_type = "AMOUNT" THEN AmountSupplyLine ELSE PctSupplyLine), ",")
PeakDemandFields(peak_type) ==
    Split(At(data.lines, IF peak_type = "AMOUNT" THEN AmountDemandLine ELSE PctDemandLine), ",")
PeakPercentageField(peak_type) ==
    At(PeakSupplyFields(peak_type), IF data.include_reserve_pct THEN 5 ELSE 4)

Truncated(s) == IntOfFloat(FloatValue(s))

\* C8: every numeric field of every record is the source value truncated
\* toward zero, and a fractional source value never makes the building fail
C8_FractionsTruncated ==
    /\ (/\ Called({"get_peak_demand_gql"})
        /\ FloatLiteral(At(PeakSupplyFields(ret.arg), 0))
        /\ FloatLiteral(At(PeakDemandFields(ret.arg), 0))
        /\ FloatLiteral(PeakPercentageField(ret.arg))) =>
              /\ ret.out.ok
              /\ ret.out.val.supply = Truncated(At(PeakSupplyFields(ret.arg), 0))
              /\ ret.out.val.amount = Truncated(At(PeakDemandFields(ret.arg), 0))
              /\ ret.out.val.percentage = Truncated(PeakPercentageField(ret.arg))
    /\ (Called({"get_last_hour_demand_gql"}) /\ ret.out.ok) =>
          LET row == fillna0(LatestWith(RegionOf(ret.op).val, "DEMAND"))
          IN  /\ ret.out.val.amount = IntOfFloat(PyFloat(row.DEMAND).val)
              /\ ret.out.val.supply = IntOfFloat(PyFloat(row.SUPPLY).val)
              /\ ret.out.val.percentage = IntOfFloat(PyFloat(row.PERCENTAGE).val)

\* C9: building the records writes nothing to the key-value store
C9_StoreUnchanged == store = {}

\* the five-minute and hourly records the last call emitted or stored
FiveRecords ==
    (IF Called({"get_last_five_min_demand_gql"}) /\ ret.out.ok THEN {ret.out.val} ELSE {})
    \cup (IF pc = "returned" /\ ret.out.val.type = "dict" THEN {ret.out.val.five} ELSE {})
    \cup {p.item : p \in store}
HourRecords ==
    (IF Called({"get_last_hour_demand_gql"}) /\ ret.out.ok THEN {ret.out.val} ELSE {})
    \cup (IF pc = "returned" /\ ret.out.val.type = "dict" THEN {ret.out.val.hourly} ELSE {})

OnToday(abs) == abs.year = now.year /\ abs.month = now.month /\ abs.day = now.day
HourRowTime == LatestWith(get_hour_list(data).val, "DEMAND").TIME.s

\* C10 (as stated): in every hourly and five-minute record the hour and the
\* minute of absDate are those of the selected row's TIME
C10_AbsDateHourAndMinute ==
    /\ \A r \in FiveRecords :
          /\ OnToday(r.absDate)
          /\ r.absDate.hour = HourOfTime(r.time)
          /\ r.absDate.minute = MinuteOfTime(r.time)
    /\ \A r \in HourRecords :
          /\ OnToday(r.absDate)
          /\ r.absDate.hour = HourOfTime(HourRowTime)
          /\ r.absDate.minute = MinuteOfTime(HourRowTime)

\* C10 (amended): in every five-minute record absDate is today at the hour
\* and minute of the record's own TIME, which is the TIME of a row of the
\* region; in every hourly record absDate is today at the hour of the
\* selected row's TIME and at minute 0
C10_AbsDateFromRowTime ==
    /\ \A r \in FiveRecords :
          /\ OnToday(r.absDate)
          /\ r.absDate.hour = HourOfTime(r.time)
          /\ r.absDate.minute = MinuteOfTime(r.time)
          /\ \E i \in 1..Len(get_five_min_list(data).val.rows) :
                get_five_min_list(data).val.rows[i].TIME = StrCell(r.time)
    /\ \A r \in HourRecords :
          /\ OnToday(r.absDate)
          /\ r.absDate.hour = HourOfTime(HourRowTime)
          /\ r.absDate.minute = 0

\* C10 witness: a solar-latest record was stored, with a TIME whose minute
\* is not zero
C10_Witness ==
    /\ Called({"get_last_five_min_demand_gql"})
    /\ ret.out.ok
    /\ store # {}
    /\ ret.out.val.absDate.minute = MinuteOfTime(ret.out.val.time)
    /\ ret.out.val.absDate.minute > 0

====
